---- MODULE Spec2Model ----
(***************************************************************************)
(* semtag: reads the latest version tag of a git repository, bumps it by   *)
(* a scope (major/minor/patch) and/or an option (alpha/beta/rc) and        *)
(* creates the new lightweight tag.  Model of src/src/main.rs.             *)
(*                                                                         *)
(* Strings are sequences of one-character strings.  A u32 is a pair        *)
(* <<hi, lo>> of 16-bit limbs (value hi * 65536 + lo), so that the full    *)
(* 32-bit width, and its overflow, is kept.  Option<T> is <<>> (None) or   *)
(* <<x>> (Some(x)).                                                        *)
(***************************************************************************)
EXTENDS Integers, Sequences, FiniteSets, TLC

(* ------------------------------ Option ------------------------------- *)

None == <<>>

Some(x) == <<x>>

IsSome(o) == o # <<>>

Unwrap(o) == o[1]

(* ------------------------------ strings ------------------------------ *)

Digits == <<"0", "1", "2", "3", "4", "5", "6", "7", "8", "9">>

IsDigit(c) == \E i \in 1..10 : Digits[i] = c

DigitVal(c) == (CHOOSE i \in 1..10 : Digits[i] = c) - 1

Letters ==
  {"a", "b", "c", "d", "e", "f", "g", "h", "i", "j", "k", "l", "m",
   "n", "o", "p", "q", "r", "s", "t", "u", "v", "w", "x", "y", "z"}

IndexOf(s, c) ==
  IF \E i \in 1..Len(s) : s[i] = c
  THEN CHOOSE i \in 1..Len(s) : s[i] = c /\ \A j \in 1..(i - 1) : s[j] # c
  ELSE 0

RECURSIVE Split(_, _)
Split(s, c) ==
  LET i == IndexOf(s, c)
  IN  IF i = 0
      THEN <<s>>
      ELSE <<SubSeq(s, 1, i - 1)>> \o Split(SubSeq(s, i + 1, Len(s)), c)

RECURSIVE Join(_, _)
Join(parts, c) ==
  IF Len(parts) = 0 THEN <<>>
  ELSE IF Len(parts) = 1 THEN parts[1]
  ELSE parts[1] \o <<c>> \o Join(Tail(parts), c)

StartsWith(s, p) == Len(p) <= Len(s) /\ SubSeq(s, 1, Len(p)) = p

StripPrefix(s, p) ==
  IF StartsWith(s, p) THEN Some(SubSeq(s, Len(p) + 1, Len(s))) ELSE None

(* -------------------------------- u32 -------------------------------- *)

Limb == 65536

U32_ZERO == <<0, 0>>

U32_MAX == <<Limb - 1, Limb - 1>>

WrappingAdd1(x) ==
  IF x[2] < Limb - 1 THEN <<x[1], x[2] + 1>>
  ELSE IF x[1] < Limb - 1 THEN <<x[1] + 1, 0>>
  ELSE U32_ZERO

DivMod10(x) ==
  LET t == (x[1] % 10) * Limb + x[2]
  IN  [quot |-> <<x[1] \div 10, t \div 10>>, rem |-> t % 10]

RECURSIVE ToDecimal(_)
ToDecimal(x) ==
  LET d == DivMod10(x)
  IN  IF d.quot = U32_ZERO
      THEN <<Digits[d.rem + 1]>>
      ELSE ToDecimal(d.quot) \o <<Digits[d.rem + 1]>>

RECURSIVE ParseDigits(_, _)
ParseDigits(s, acc) ==
  IF ~IsSome(acc) \/ Len(s) = 0 THEN acc
  ELSE IF ~IsDigit(s[1]) THEN None
  ELSE LET x  == Unwrap(acc)
           lo == x[2] * 10 + DigitVal(s[1])
           hi == x[1] * 10 + (lo \div Limb)
       IN  IF hi >= Limb THEN None
           ELSE ParseDigits(Tail(s), Some(<<hi, lo % Limb>>))

ParseU32(s) ==
  LET body == IF Len(s) > 1 /\ s[1] = "+" THEN Tail(s) ELSE s
  IN  IF Len(body) = 0 THEN None ELSE ParseDigits(body, Some(U32_ZERO))

(* ------------------------- program constants ------------------------- *)

SCOPE_MAJOR == <<"m", "a", "j", "o", "r">>

SCOPE_MINOR == <<"m", "i", "n", "o", "r">>

SCOPE_PATCH == <<"p", "a", "t", "c", "h">>

OPT_ALPHA == <<"a", "l", "p", "h", "a">>

OPT_BETA == <<"b", "e", "t", "a">>

OPT_RC == <<"r", "c">>

ERR_PARTS == "Invalid parts length"

ERR_FORMAT == "Invalid version format"

ERR_MAJOR == "Invalid major version"

ERR_MINOR == "Invalid minor version"

ERR_PATCH == "Invalid patch version"

ERR_SCOPE == "Invalid scope. Valid scopes are: major, minor, patch, and option"

ERR_OPTION == "Invalid option. Valid scopes are: alpha, beta, rc, or just left it empty"

PANIC_OVERFLOW == "attempt to add with overflow"

(* ------------------------------ results ------------------------------ *)

Ok(v) == [kind |-> "ok", val |-> Some(v), err |-> ""]

Err(e) == [kind |-> "err", val |-> None, err |-> e]

Panic(e) == [kind |-> "panic", val |-> None, err |-> e]

IsOk(r) == r.kind = "ok"

(* ------------------------------ is_semver ---------------------------- *)

U64_MAX_DIGITS ==
  <<"1", "8", "4", "4", "6", "7", "4", "4", "0", "7",
    "3", "7", "0", "9", "5", "5", "1", "6", "1", "5">>

RECURSIVE DigitsLeq(_, _)
DigitsLeq(a, b) ==
  IF Len(a) = 0 THEN TRUE
  ELSE IF DigitVal(a[1]) < DigitVal(b[1]) THEN TRUE
  ELSE IF DigitVal(a[1]) > DigitVal(b[1]) THEN FALSE
  ELSE DigitsLeq(Tail(a), Tail(b))

AllDigits(s) == \A i \in 1..Len(s) : IsDigit(s[i])

IsIdentChar(c) == IsDigit(c) \/ c \in Letters \/ c = "-"

NumericIdent(s) ==
  /\ Len(s) > 0
  /\ AllDigits(s)
  /\ (Len(s) = 1 \/ s[1] # "0")
  /\ (Len(s) < 20 \/ (Len(s) = 20 /\ DigitsLeq(s, U64_MAX_DIGITS)))

PreIdent(s) ==
  /\ Len(s) > 0
  /\ \A i \in 1..Len(s) : IsIdentChar(s[i])
  /\ (AllDigits(s) => (Len(s) = 1 \/ s[1] # "0"))

BuildIdent(s) == Len(s) > 0 /\ \A i \in 1..Len(s) : IsIdentChar(s[i])

is_semver(version_str) ==
  LET plus  == IndexOf(version_str, "+")
      main  == IF plus = 0 THEN version_str ELSE SubSeq(version_str, 1, plus - 1)
      build == SubSeq(version_str, plus + 1, Len(version_str))
      dash  == IndexOf(main, "-")
      core  == IF dash = 0 THEN main ELSE SubSeq(main, 1, dash - 1)
      pre   == SubSeq(main, dash + 1, Len(main))
      nums  == Split(core, ".")
      pres  == Split(pre, ".")
      blds  == Split(build, ".")
  IN  /\ Len(nums) = 3
      /\ \A i \in 1..3 : NumericIdent(nums[i])
      /\ (dash # 0 => \A i \in 1..Len(pres) : PreIdent(pres[i]))
      /\ (plus # 0 => \A i \in 1..Len(blds) : BuildIdent(blds[i]))

(* ------------------------------ Version ------------------------------ *)

Version(prefix, major, minor, patch, label, rc_number) ==
  [prefix |-> prefix, major |-> major, minor |-> minor, patch |-> patch,
   label |-> label, rc_number |-> rc_number]

FirstSemver(parts) ==
  IF \E i \in 1..Len(parts) : is_semver(parts[i])
  THEN CHOOSE i \in 1..Len(parts) :
         is_semver(parts[i]) /\ \A j \in 1..(i - 1) : ~is_semver(parts[j])
  ELSE 0

\* The (prefix, core, label) triple of Version::parse; the third element is
\* computed by the code and never read.
PrefixAndVersion(parts) ==
  IF Len(parts) > 2
  THEN LET index == FirstSemver(parts)
       IN  IF index = 0
           THEN <<None, <<>>, None>>
           ELSE <<Some(Join(SubSeq(parts, 1, index - 1), "-")),
                  parts[index],
                  Some(Join(SubSeq(parts, index + 1, Len(parts)), "-"))>>
  ELSE IF Len(parts) = 2
  THEN IF is_semver(parts[1])
       THEN <<None, parts[1], Some(parts[2])>>
       ELSE <<Some(parts[1]), parts[2], None>>
  ELSE <<None, parts[1], None>>

ParseLabel(parts) == Some(parts[Len(parts)])

ParseRcNumber(label) ==
  IF IsSome(label)
  THEN LET stripped == StripPrefix(Unwrap(label), OPT_RC \o <<".">>)
       IN  IF IsSome(stripped) THEN ParseU32(Unwrap(stripped)) ELSE None
  ELSE None

Parse(version) ==
  LET parts == Split(version, "-")
      pv    == PrefixAndVersion(parts)
      version_parts == Split(pv[2], ".")
      major == ParseU32(version_parts[1])
      minor == ParseU32(version_parts[2])
      patch == ParseU32(version_parts[3])
      label == ParseLabel(parts)
  IN  IF Len(parts) = 0 THEN Err(ERR_PARTS)
      ELSE IF Len(version_parts) < 3 THEN Err(ERR_FORMAT)
      ELSE IF ~IsSome(major) THEN Err(ERR_MAJOR)
      ELSE IF ~IsSome(minor) THEN Err(ERR_MINOR)
      ELSE IF ~IsSome(patch) THEN Err(ERR_PATCH)
      ELSE Ok(Version(pv[1], Unwrap(major), Unwrap(minor), Unwrap(patch),
                      label, ParseRcNumber(label)))

(* ----------------------------- increment ----------------------------- *)

\* x += 1 on a u32: a build with overflow checks panics at u32::MAX, a build
\* without them wraps to 0.
Add1(x, checks) ==
  IF x = U32_MAX /\ checks THEN None ELSE Some(WrappingAdd1(x))

\* The scope match of Version::increment: Ok(new_version), the invalid-scope
\* error, or the overflow panic.
ApplyScope(v, scope, checks) ==
  IF scope = Some(SCOPE_MAJOR)
  THEN LET n == Add1(v.major, checks)
       IN  IF ~IsSome(n) THEN Panic(PANIC_OVERFLOW)
           ELSE Ok([v EXCEPT !.major = Unwrap(n), !.minor = U32_ZERO,
                             !.patch = U32_ZERO, !.label = None])
  ELSE IF scope = Some(SCOPE_MINOR)
  THEN LET n == Add1(v.minor, checks)
       IN  IF ~IsSome(n) THEN Panic(PANIC_OVERFLOW)
           ELSE Ok([v EXCEPT !.minor = Unwrap(n), !.patch = U32_ZERO,
                             !.label = None])
  ELSE IF scope = Some(SCOPE_PATCH)
  THEN LET n == Add1(v.patch, checks)
       IN  IF ~IsSome(n) THEN Panic(PANIC_OVERFLOW)
           ELSE Ok([v EXCEPT !.patch = Unwrap(n), !.label = None])
  ELSE IF scope = None THEN Ok(v)
  ELSE Err(ERR_SCOPE)

\* The option match of Version::increment.
ApplyOption(v, option, checks) ==
  IF option = Some(OPT_ALPHA)
  THEN Ok([v EXCEPT !.label = Some(OPT_ALPHA), !.rc_number = None])
  ELSE IF option = Some(OPT_BETA)
  THEN Ok([v EXCEPT !.label = Some(OPT_BETA), !.rc_number = None])
  ELSE IF option = Some(OPT_RC)
  THEN LET old == IF IsSome(v.rc_number) THEN Unwrap(v.rc_number) ELSE U32_ZERO
           new_rc_number == Add1(old, checks)
       IN  IF ~IsSome(new_rc_number) THEN Panic(PANIC_OVERFLOW)
           ELSE Ok([v EXCEPT
                      !.rc_number = new_rc_number,
                      !.label = Some(OPT_RC \o <<".">> \o ToDecimal(Unwrap(new_rc_number)))])
  ELSE IF option = None THEN Ok(v)
  ELSE Err(ERR_OPTION)

\* Version::increment with its two matches swapped: option first, then scope.
IncrementOptionFirst(v, scope, option, checks) ==
  LET optioned == ApplyOption(v, option, checks)
  IN  IF IsOk(optioned) THEN ApplyScope(Unwrap(optioned.val), scope, checks)
      ELSE optioned

Increment(v, scope, option, checks) ==
  LET scoped == ApplyScope(v, scope, checks)
  IN  IF IsOk(scoped) THEN ApplyOption(Unwrap(scoped.val), option, checks)
      ELSE scoped

(* ------------------------------ Display ------------------------------ *)

Render(v) ==
  LET version == ToDecimal(v.major) \o <<".">> \o ToDecimal(v.minor)
                   \o <<".">> \o ToDecimal(v.patch)
      label   == IF IsSome(v.label)
                 THEN IF Unwrap(v.label) = OPT_RC
                      THEN <<"-">> \o OPT_RC \o <<".">> \o
                           ToDecimal(IF IsSome(v.rc_number)
                                     THEN Unwrap(v.rc_number) ELSE U32_ZERO)
                      ELSE <<"-">> \o Unwrap(v.label)
                 ELSE <<>>
      prefix  == IF IsSome(v.prefix) THEN Unwrap(v.prefix) \o <<"-">> ELSE <<>>
  IN  prefix \o version \o label

(* ------------------------------- state ------------------------------- *)

VARIABLES
  pc,               \* position in main, or in the engine's call sequence
  overflow_checks,  \* whether the build checks arithmetic overflow
  scope,            \* args.scope
  option,           \* args.option
  prefix,           \* args.prefix
  dry_run,          \* args.dry_run
  tags,             \* the repository's tags, in the order tag_names lists them
  tags_at_start,    \* the repository's tags when main started
  current_version,  \* the string handed to Version::parse
  version,          \* Option<Version>: the parsed Version held by the caller
  result,           \* the Result of the last parse or increment call
  before,           \* Option<Version>: the Version increment was called on
  new_version_str,  \* the rendered string
  exit_code,        \* -1 while running, else the process's exit code
  stderr,           \* the message on the error stream, "" when none
  stdout,           \* the lines printed to stdout
  created,          \* tags this run has written to the repository
  log,              \* the stages of this run that succeeded, in order
  calls             \* calls of increment made so far (engine)

vars ==
  <<pc, overflow_checks, scope, option, prefix, dry_run, tags, tags_at_start,
    current_version, version, result, before, new_version_str, exit_code,
    stderr, stdout, created, log, calls>>

NoResult == [kind |-> "none", val |-> None, err |-> ""]

(* --------------------------- input alphabets -------------------------- *)

S_BOGUS == <<"b", "o", "g", "u", "s">>

Scopes == {None, Some(SCOPE_MAJOR), Some(SCOPE_MINOR), Some(SCOPE_PATCH), Some(S_BOGUS)}

Options == {None, Some(OPT_ALPHA), Some(OPT_BETA), Some(OPT_RC), Some(S_BOGUS)}

ValidScopes == {Some(SCOPE_MAJOR), Some(SCOPE_MINOR), Some(SCOPE_PATCH)}

ValidOptions == {Some(OPT_ALPHA), Some(OPT_BETA), Some(OPT_RC)}

D_MAX == <<"4", "2", "9", "4", "9", "6", "7", "2", "9", "5">>

D_OVER == <<"4", "2", "9", "4", "9", "6", "7", "2", "9", "6">>

C_123 == <<"1", ".", "2", ".", "3">>

C_000 == <<"0", ".", "0", ".", "0">>

C_MAX == D_MAX \o <<".">> \o D_MAX \o <<".">> \o D_MAX

T_P == <<"p">>

T_PQ == <<"p", "q">>

L_RC3 == <<"r", "c", ".", "3">>

L_RCMAX == <<"r", "c", ".">> \o D_MAX

Dash(a, b) == a \o <<"-">> \o b

\* Strings Version::parse accepts.
GoodInputs ==
  {C_123, C_000, C_MAX,
   Dash(T_P, C_123),
   Dash(C_123, OPT_ALPHA),
   Dash(C_123, OPT_RC),
   Dash(C_123, L_RC3),
   Dash(C_123, L_RCMAX),
   Dash(C_123, <<"r", "c", ".", "x">>),
   Dash(C_123, Dash(<<"a">>, <<"b">>)),
   Dash(T_P, Dash(C_123, L_RC3)),
   Dash(Dash(T_P, <<"q">>), Dash(C_123, OPT_BETA)),
   Dash(<<"1", ".", "0">>, C_123),
   Dash(C_000, C_123),
   <<"0", "1", ".", "2", ".", "3">>,
   <<"1", ".", "2", ".", "3", ".", "4">>}

\* Strings Version::parse rejects.
BadInputs ==
  {<<>>,
   <<"1", ".", "2">>,
   Dash(T_P, <<"1", ".", "2">>),
   <<"x", ".", "2", ".", "3">>,
   <<"1", ".", "y", ".", "3">>,
   <<"1", ".", "2", ".", "z">>,
   Dash(T_P, <<"1", ".", "2", ".", "z">>),
   D_OVER \o <<".", "0", ".", "0">>,
   <<"1", ".", "2", ".", "3", "+", "b">>,
   Dash(<<"a">>, Dash(<<"b">>, <<"c">>)),
   Dash(<<"a">>, Dash(<<"1", ".", "2">>, <<"c">>)),
   Dash(Dash(<<"a">>, <<"b">>), Dash(<<"x", ".", "2", ".", "3">>, <<"c">>))}

EngineInputs == GoodInputs \cup BadInputs

MaxCalls == 2

(* ------------------------------- engine ------------------------------- *)
(* Version::parse, Version::increment and Display applied in sequence to   *)
(* one input string.                                                       *)

HaveVersion == pc \in {"parsed", "incremented", "continued"}

EngineInit ==
  /\ pc = "input"
  /\ overflow_checks \in BOOLEAN
  /\ current_version \in EngineInputs
  /\ scope = None /\ option = None /\ prefix = None /\ dry_run = FALSE
  /\ tags = <<>> /\ tags_at_start = <<>>
  /\ version = None /\ result = NoResult /\ before = None
  /\ new_version_str = <<>>
  /\ exit_code = -1 /\ stderr = "" /\ stdout = <<>>
  /\ created = 0 /\ log = <<>> /\ calls = 0

\* Version::parse(current_version)
EngineParse ==
  /\ pc = "input"
  /\ result' = Parse(current_version)
  /\ version' = result'.val
  /\ pc' = IF IsOk(result') THEN "parsed" ELSE "parse_failed"
  /\ UNCHANGED <<overflow_checks, scope, option, prefix, dry_run, tags,
                 tags_at_start, current_version, before, new_version_str,
                 exit_code, stderr, stdout, created, log, calls>>

\* version.increment(s, o); on Ok the caller goes on with the new Version
EngineIncrement(s, o) ==
  /\ HaveVersion
  /\ calls < MaxCalls
  /\ scope' = s /\ option' = o
  /\ before' = version
  /\ result' = Increment(Unwrap(version), s, o, overflow_checks)
  /\ version' = IF IsOk(result') THEN result'.val ELSE version
  /\ pc' = IF result'.kind = "panic" THEN "panicked" ELSE "incremented"
  /\ calls' = calls + 1
  /\ UNCHANGED <<overflow_checks, prefix, dry_run, tags, tags_at_start,
                 current_version, new_version_str, exit_code, stderr, stdout,
                 created, log>>

\* version.to_string()
EngineRender ==
  /\ HaveVersion
  /\ new_version_str' = Render(Unwrap(version))
  /\ pc' = "rendered"
  /\ UNCHANGED <<overflow_checks, scope, option, prefix, dry_run, tags,
                 tags_at_start, current_version, version, result, before,
                 exit_code, stderr, stdout, created, log, calls>>

\* Version::parse of the rendered string
EngineReparse ==
  /\ pc = "rendered"
  /\ current_version' = new_version_str
  /\ result' = Parse(new_version_str)
  /\ pc' = "reparsed"
  /\ UNCHANGED <<overflow_checks, scope, option, prefix, dry_run, tags,
                 tags_at_start, version, before, new_version_str, exit_code,
                 stderr, stdout, created, log, calls>>

\* the caller goes on with the reparsed Version
EngineContinue ==
  /\ pc = "reparsed"
  /\ IsOk(result)
  /\ version' = result.val
  /\ pc' = "continued"
  /\ UNCHANGED <<overflow_checks, scope, option, prefix, dry_run, tags,
                 tags_at_start, current_version, result, before,
                 new_version_str, exit_code, stderr, stdout, created, log,
                 calls>>

EngineNext ==
  \/ EngineParse
  \/ \E s \in Scopes, o \in Options : EngineIncrement(s, o)
  \/ EngineRender
  \/ EngineReparse
  \/ EngineContinue

EngineSpec == EngineInit /\ [][EngineNext]_vars

(* -------------------------------- main -------------------------------- *)

MSG_NOT_REPO == "The current directory is not a git repository"

MSG_FETCH == "Error fetching latest tag"

MSG_INCREMENT == "Error incrementing version"

MSG_CREATE == "Error creating tag"

MSG_PARSE == "Error"

\* The tag filter of get_latest_git_tag.
TagMatches(tag, p) ==
  IF IsSome(p) THEN StartsWith(tag, Unwrap(p))
  ELSE is_semver(Split(tag, "-")[1])

FilteredTags(names, p) == SelectSeq(names, LAMBDA tag : TagMatches(tag, p))

DefaultTag(p, o) ==
  LET t0 == C_000
      t1 == IF IsSome(p) THEN Unwrap(p) \o <<"-">> \o t0 ELSE t0
  IN  IF IsSome(o) THEN t1 \o <<"-">> \o Unwrap(o) ELSE t1

get_latest_git_tag(names, p, o) ==
  LET filtered_tags == FilteredTags(names, p)
  IN  IF Len(filtered_tags) = 0 THEN DefaultTag(p, o)
      ELSE filtered_tags[Len(filtered_tags)]

TagExists(names, tag) == \E i \in 1..Len(names) : names[i] = tag

InsertAt(names, i, tag) ==
  SubSeq(names, 1, i - 1) \o <<tag>> \o SubSeq(names, i, Len(names))

\* arg_required_else_help: a command line with no argument prints the help.
NoArguments(s, o, p, d) == s = None /\ o = None /\ p = None /\ ~d

\* main with the dry-run test dropped.
WritesTagAlways(d) == TRUE

\* main writes the tag unless --dry-run was given.
WritesTag(d) == ~d

Prefixes == {None, Some(T_P)}

TagPool ==
  {C_123,
   Dash(T_P, C_123),
   Dash(T_PQ, C_123),
   Dash(C_123, L_RC3),
   D_MAX \o <<".", "0", ".", "0">>,
   Dash(T_P, <<"1", ".", "2">>),
   <<"x">>}

MaxTags == 2

\* Repositories the tool may be run on: up to MaxTags distinct tags, listed
\* in any order.
InitialRepos ==
  {r \in UNION {[1..n -> TagPool] : n \in 0..MaxTags} :
     \A i, j \in 1..Len(r) : r[i] = r[j] => i = j}

Locals ==
  /\ scope = None /\ option = None /\ prefix = None /\ dry_run = FALSE
  /\ current_version = <<>>
  /\ version = None /\ result = NoResult /\ before = None
  /\ new_version_str = <<>>
  /\ exit_code = -1 /\ stderr = "" /\ stdout = <<>>
  /\ created = 0 /\ log = <<>>

Init ==
  /\ pc = "start"
  /\ overflow_checks \in BOOLEAN
  /\ tags \in InitialRepos
  /\ tags_at_start = tags
  /\ Locals
  /\ calls = 0

Exit(code, msg) ==
  /\ pc' = "exited"
  /\ exit_code' = code
  /\ stderr' = msg

\* Args::parse()
ParseArgs(s, o, p, d) ==
  /\ pc = "start"
  /\ IF NoArguments(s, o, p, d)
     THEN /\ Exit(2, "")
          /\ stdout' = <<"help">>
          /\ UNCHANGED <<scope, option, prefix, dry_run, log>>
     ELSE /\ scope' = s /\ option' = o /\ prefix' = p /\ dry_run' = d
          /\ pc' = "args"
          /\ log' = Append(log, "args")
          /\ UNCHANGED <<exit_code, stderr, stdout>>
  /\ UNCHANGED <<overflow_checks, tags, tags_at_start, current_version,
                 version, result, before, new_version_str, created, calls>>

\* Repository::open(".")
OpenRepository ==
  /\ pc = "args"
  /\ \/ /\ pc' = "opened"
        /\ log' = Append(log, "open")
        /\ UNCHANGED <<exit_code, stderr>>
     \/ /\ Exit(1, MSG_NOT_REPO)
        /\ UNCHANGED log
  /\ UNCHANGED <<overflow_checks, scope, option, prefix, dry_run, tags,
                 tags_at_start, current_version, version, result, before,
                 new_version_str, stdout, created, calls>>

\* get_latest_git_tag(&repo, prefix, option)
GetLatestTag ==
  /\ pc = "opened"
  /\ \/ /\ current_version' = get_latest_git_tag(tags, prefix, option)
        /\ pc' = "fetched"
        /\ log' = Append(log, "fetch")
        /\ UNCHANGED <<exit_code, stderr>>
     \/ /\ Exit(1, MSG_FETCH)
        /\ UNCHANGED <<current_version, log>>
  /\ UNCHANGED <<overflow_checks, scope, option, prefix, dry_run, tags,
                 tags_at_start, version, result, before, new_version_str,
                 stdout, created, calls>>

\* Version::parse(&current_version)
ParseVersion ==
  /\ pc = "fetched"
  /\ result' = Parse(current_version)
  /\ version' = result'.val
  /\ IF IsOk(result')
     THEN /\ pc' = "parsed"
          /\ log' = Append(log, "parse")
          /\ UNCHANGED <<exit_code, stderr>>
     ELSE /\ Exit(1, MSG_PARSE)
          /\ UNCHANGED log
  /\ UNCHANGED <<overflow_checks, scope, option, prefix, dry_run, tags,
                 tags_at_start, current_version, before, new_version_str,
                 stdout, created, calls>>

\* version.increment(scope, option)
IncrementVersion ==
  /\ pc = "parsed"
  /\ before' = version
  /\ result' = Increment(Unwrap(version), scope, option, overflow_checks)
  /\ IF IsOk(result')
     THEN /\ pc' = "incremented"
          /\ log' = Append(log, "increment")
          /\ UNCHANGED <<exit_code, stderr>>
     ELSE /\ IF result'.kind = "panic"
             THEN Exit(101, PANIC_OVERFLOW)
             ELSE Exit(1, MSG_INCREMENT)
          /\ UNCHANGED log
  /\ UNCHANGED <<overflow_checks, scope, option, prefix, dry_run, tags,
                 tags_at_start, current_version, version, new_version_str,
                 stdout, created, calls>>

\* new_version.to_string()
RenderVersion ==
  /\ pc = "incremented"
  /\ new_version_str' = Render(Unwrap(result.val))
  /\ pc' = "rendered"
  /\ log' = Append(log, "render")
  /\ UNCHANGED <<overflow_checks, scope, option, prefix, dry_run, tags,
                 tags_at_start, current_version, version, result, before,
                 exit_code, stderr, stdout, created, calls>>

\* the dry-run branch: two lines on stdout, nothing written
PrintDryRun ==
  /\ pc = "rendered"
  /\ ~WritesTag(dry_run)
  /\ stdout' = <<<<"Latest version", current_version>>,
                 <<"New version", new_version_str>>>>
  /\ pc' = "exited"
  /\ exit_code' = 0
  /\ log' = Append(log, "print")
  /\ UNCHANGED <<overflow_checks, scope, option, prefix, dry_run, tags,
                 tags_at_start, current_version, version, result, before,
                 new_version_str, stderr, created, calls>>

\* create_git_tag(&repo, &new_version_str): HEAD may not resolve, the commit
\* may not be found, and tag_lightweight (force = false) fails on a tag that
\* exists (or for any reason of its own); on success the tag is listed at
\* some position of tag_names.
CreateTag ==
  /\ pc = "rendered"
  /\ WritesTag(dry_run)
  /\ \/ /\ ~TagExists(tags, new_version_str)
        /\ \E i \in 1..(Len(tags) + 1) :
             tags' = InsertAt(tags, i, new_version_str)
        /\ created' = created + 1
        /\ stdout' = <<<<"Tag created", new_version_str>>>>
        /\ pc' = "exited"
        /\ exit_code' = 0
        /\ log' = Append(log, "create")
        /\ UNCHANGED stderr
     \/ /\ Exit(1, MSG_CREATE)
        /\ UNCHANGED <<tags, created, stdout, log>>
  /\ UNCHANGED <<overflow_checks, scope, option, prefix, dry_run,
                 tags_at_start, current_version, version, result, before,
                 new_version_str, calls>>

Next ==
  \/ \E s \in Scopes, o \in Options, p \in Prefixes, d \in BOOLEAN :
       ParseArgs(s, o, p, d)
  \/ OpenRepository
  \/ GetLatestTag
  \/ ParseVersion
  \/ IncrementVersion
  \/ RenderVersion
  \/ PrintDryRun
  \/ CreateTag

Spec == Init /\ [][Next]_vars

(* ------------------------------- claims ------------------------------- *)

EndsWith(s, t) == Len(t) <= Len(s) /\ SubSeq(s, Len(s) - Len(t) + 1, Len(s)) = t

\* y = x + 1 over the naturals, on the limb representation
IsSucc(x, y) ==
  \/ y[1] = x[1] /\ y[2] = x[2] + 1
  \/ y[1] = x[1] + 1 /\ y[2] = 0 /\ x[2] = Limb - 1

U32_ONE == <<0, 1>>

AbsentOrValid(o, valid) == o = None \/ o \in valid

\* C1: round trip. Every Version the engine produced (by parse or by
\* increment), once rendered and parsed again, comes back as the same
\* Version in every field.
C1_RoundTrip ==
  pc = "reparsed" => (IsOk(result) /\ result.val = version)

\* C2: label clearing. Any scope bump leaves label and rc_number absent,
\* whatever they were, so that a scope bump with the rc option on a version
\* at rc.N gives counter 1, rendered -rc.1.
C2_ScopeBumpClears ==
  (pc = "incremented" /\ IsOk(result) /\ scope \in ValidScopes) =>
    LET nv == Unwrap(result.val)
    IN  /\ option = None => (nv.label = None /\ nv.rc_number = None)
        /\ option = Some(OPT_RC) =>
             /\ nv.rc_number = Some(U32_ONE)
             /\ EndsWith(Render(nv), <<"-", "r", "c", ".", "1">>)

\* C3: scope monotonicity. A major bump gives major + 1 and minor = patch = 0,
\* a minor bump keeps major, gives minor + 1 and patch = 0, a patch bump keeps
\* major and minor and gives patch + 1; the prefix is kept.
C3_ScopeMonotonic ==
  (pc = "incremented" /\ IsOk(result) /\ scope \in ValidScopes) =>
    LET v  == Unwrap(before)
        nv == Unwrap(result.val)
    IN  /\ nv.prefix = v.prefix
        /\ scope = Some(SCOPE_MAJOR) =>
             /\ IsSucc(v.major, nv.major)
             /\ nv.minor = U32_ZERO /\ nv.patch = U32_ZERO
        /\ scope = Some(SCOPE_MINOR) =>
             /\ nv.major = v.major
             /\ IsSucc(v.minor, nv.minor)
             /\ nv.patch = U32_ZERO
        /\ scope = Some(SCOPE_PATCH) =>
             /\ nv.major = v.major /\ nv.minor = v.minor
             /\ IsSucc(v.patch, nv.patch)

\* C4: rc counter. A call with the rc option and no scope gives rc_number one
\* more than before (1 when it was absent), and the rendered tag ends in
\* -rc.<counter>.
C4_RcCounter ==
  (pc = "incremented" /\ IsOk(result) /\ scope = None /\ option = Some(OPT_RC)) =>
    LET v   == Unwrap(before)
        nv  == Unwrap(result.val)
        old == IF IsSome(v.rc_number) THEN Unwrap(v.rc_number) ELSE U32_ZERO
    IN  /\ IsSome(nv.rc_number)
        /\ IsSucc(old, Unwrap(nv.rc_number))
        /\ (v.rc_number = None => nv.rc_number = Some(U32_ONE))
        /\ EndsWith(Render(nv),
                    <<"-", "r", "c", ".">> \o ToDecimal(Unwrap(nv.rc_number)))

\* the call with the scope alone, then on its Version the call with the
\* option alone
ScopeThenOption(v, s, o) ==
  LET first == Increment(v, s, None, overflow_checks)
  IN  IF IsOk(first)
      THEN Increment(Unwrap(first.val), None, o, overflow_checks)
      ELSE first

\* the call with the option alone, then on its Version the call with the
\* scope alone
OptionThenScope(v, s, o) ==
  LET first == Increment(v, None, o, overflow_checks)
  IN  IF IsOk(first)
      THEN Increment(Unwrap(first.val), s, None, overflow_checks)
      ELSE first

\* C5: ordering. One call with a scope and an option gives what the two calls
\* scope-only then option-only give; when both are given and the call
\* returns a Version, it is not what option-only then scope-only give.
C5_ScopeThenOption ==
  (pc \in {"incremented", "panicked"}
     /\ AbsentOrValid(scope, ValidScopes) /\ AbsentOrValid(option, ValidOptions)) =>
    /\ result = ScopeThenOption(Unwrap(before), scope, option)
    /\ (IsOk(result) /\ scope # None /\ option # None) =>
         result # OptionThenScope(Unwrap(before), scope, option)

C5_Witness ==
  /\ pc = "incremented" /\ IsOk(result)
  /\ scope = Some(SCOPE_PATCH) /\ option = Some(OPT_RC)
  /\ IsSome(Unwrap(before).rc_number)
  /\ IsSome(Unwrap(before).label)

\* The label the parse of raw is to record: what follows the core segment.
LabelAfterCore(raw) ==
  LET parts == Split(raw, "-")
      index == FirstSemver(parts)
  IN  IF Len(parts) = 1 THEN None
      ELSE IF Len(parts) = 2
      THEN IF is_semver(parts[1]) THEN Some(parts[2]) ELSE None
      ELSE Some(Join(SubSeq(parts, index + 1, Len(parts)), "-"))

\* C8: parse records as label the segments after the core: none for a single
\* segment and for prefix-core, segment 2 for core-label, and for three or
\* more segments everything after the first semver segment.
C8_LabelIsAfterCore ==
  pc = "parsed" => Unwrap(version).label = LabelAfterCore(current_version)

\* The first of the three core parts that is no unsigned integer, 0 if none.
FirstBadPart(comps) ==
  IF \E i \in 1..3 : ~IsSome(ParseU32(comps[i]))
  THEN CHOOSE i \in 1..3 :
         ~IsSome(ParseU32(comps[i])) /\ \A j \in 1..(i - 1) : IsSome(ParseU32(comps[j]))
  ELSE 0

\* C9: parse errors are distinct. (a) three or more segments, none a semver:
\* an error of its own kind, none of the errors about the core; (b) a core of
\* fewer than three parts: the missing-component error; (c) a part that is no
\* unsigned integer: the error naming it.
C9_DistinctParseErrors ==
  pc = "parse_failed" =>
    LET parts == Split(current_version, "-")
        comps == Split(PrefixAndVersion(parts)[2], ".")
    IN  /\ result.kind = "err" /\ result.val = None
        /\ IF Len(parts) >= 3 /\ FirstSemver(parts) = 0
           THEN result.err \notin {ERR_FORMAT, ERR_MAJOR, ERR_MINOR, ERR_PATCH}
           ELSE IF Len(comps) < 3 THEN result.err = ERR_FORMAT
           ELSE result.err = <<ERR_MAJOR, ERR_MINOR, ERR_PATCH>>[FirstBadPart(comps)]

\* C9 (b) and (c) alone, which the code meets.
C9_CoreErrors ==
  pc = "parse_failed" =>
    LET parts == Split(current_version, "-")
        comps == Split(PrefixAndVersion(parts)[2], ".")
    IN  /\ result.kind = "err" /\ result.val = None
        /\ IF Len(comps) < 3 THEN result.err = ERR_FORMAT
           ELSE result.err = <<ERR_MAJOR, ERR_MINOR, ERR_PATCH>>[FirstBadPart(comps)]

IncrementCalled == IsSome(before)

NothingWritten == created = 0 /\ tags = tags_at_start

\* C6: invalid tokens. increment with a scope outside major/minor/patch fails
\* with the invalid-scope error; with an option outside alpha/beta/rc (the
\* scope absent or valid) it fails with the invalid-option error; no Version
\* is returned, the input Version is as it was, and the run creates no tag.
C6_InvalidTokens ==
  (IncrementCalled
     /\ (~AbsentOrValid(scope, ValidScopes) \/ ~AbsentOrValid(option, ValidOptions))) =>
    /\ result = Err(IF ~AbsentOrValid(scope, ValidScopes) THEN ERR_SCOPE ELSE ERR_OPTION)
    /\ version = before
    /\ pc = "exited" /\ exit_code # 0
    /\ NothingWritten

AllStages == <<"args", "open", "fetch", "parse", "increment", "render", "create">>

\* C7: a tag is created only when dry-run is off and every earlier stage
\* succeeded; a dry run and a failed run leave the repository as it was; no
\* run creates more than one tag.
C7_TagOnlyAfterAllStages ==
  /\ created <= 1
  /\ created = 1 =>
       /\ ~dry_run /\ log = AllStages /\ pc = "exited" /\ exit_code = 0
       /\ Len(tags) = Len(tags_at_start) + 1
       /\ \E i \in 1..Len(tags) : tags = InsertAt(tags_at_start, i, new_version_str)
  /\ created = 0 => tags = tags_at_start
  /\ (dry_run \/ (pc = "exited" /\ exit_code # 0)) => NothingWritten

C7_Witness ==
  /\ pc = "exited" /\ created = 1 /\ exit_code = 0
  /\ Len(tags) = 2 /\ Len(tags_at_start) = 1

\* what follows "P-" is major.minor.patch, then nothing or -label
HasVersionForm(rest) == is_semver(Split(rest, "-")[1]) /\ IndexOf(rest, "+") = 0

\* C10: a run given prefix P that succeeds prints or creates a tag of the form
\* P-major.minor.patch[-label], bumped from a tag whose prefix is P.
C10_NewTagCarriesPrefix ==
  (pc = "exited" /\ exit_code = 0 /\ IsSome(prefix)) =>
    LET lead == Unwrap(prefix) \o <<"-">>
    IN  /\ Unwrap(version).prefix = prefix
        /\ StartsWith(new_version_str, lead)
        /\ HasVersionForm(SubSeq(new_version_str, Len(lead) + 1, Len(new_version_str)))

====
